---- MODULE Spec2Model ----
(***************************************************************************)
(* Text -> vCard converter (src/app.py): the three functions              *)
(* normalize_phone, parse_contacts and to_vcard.  Each behaviour is one    *)
(* call of one of them: the argument is drawn in Init, and the actions     *)
(* run the function, parse_contacts one pass of its loop at a time.  The   *)
(* window (class App) hands them the text of a box the user edits freely   *)
(* and shows what they return; its widgets are not part of the model.      *)
(*                                                                         *)
(* A Python str is modelled as a sequence of fragments whose concatenation *)
(* is the str.  Characters that come from the input are one-character      *)
(* fragments; the fixed literals of the code (the f-string pieces of the   *)
(* warnings, the vCard keywords) are one fragment each.  A character      *)
(* outside ASCII is one fragment too, written by its code point: "U+0663"  *)
(* is ARABIC-INDIC DIGIT THREE.                                            *)
(***************************************************************************)
EXTENDS Naturals, Sequences, FiniteSets

VARIABLES pc, raw_phone, result, text, lines, i, pairs, warnings,
          entries, vcard

vars == <<pc, raw_phone, result, text, lines, i, pairs, warnings,
          entries, vcard>>

----------------------------------------------------------------------------
(* Bounds of the checked inputs *)

\* longest raw phone enumerated exhaustively over Alphabet
MaxRawLen == 3

\* long digit runs have (11 - RunSlack) .. (11 + RunSlack) digits
RunSlack == 1

\* longest text enumerated exhaustively over TextAlphabet
MaxTextLen == 5

\* the other texts are made of at most MaxPieces of Pieces
MaxPieces == 4

\* to_vcard gets at most MaxEntries Contacts
MaxEntries == 3

----------------------------------------------------------------------------
(* Characters *)

AsciiDigits == {"0", "1", "2", "3", "4", "5", "6", "7", "8", "9"}

\* a decimal digit outside ASCII (Unicode category Nd)
ArabicThree == "U+0663"

\* str.isspace() characters that occur in the inputs
Whitespace == {" ", "\t", "\n", "\r", "\f"}

\* str.splitlines() line boundaries that occur in the inputs
LineBreaks == {"\n", "\r", "\f"}

\* the value None of Python, which is no str
None == <<"None">>

\* re: \d on a str pattern matches every Unicode decimal digit
IsDigit(c) == c \in AsciiDigits \cup {ArabicThree}

----------------------------------------------------------------------------
(* str methods used by the code *)

RECURSIVE lstrip(_)
lstrip(s) ==
    IF s # <<>> /\ Head(s) \in Whitespace THEN lstrip(Tail(s)) ELSE s

RECURSIVE rstrip(_)
rstrip(s) ==
    IF s # <<>> /\ s[Len(s)] \in Whitespace
    THEN rstrip(SubSeq(s, 1, Len(s) - 1))
    ELSE s

\* str.strip()
strip(s) == rstrip(lstrip(s))

\* str.startswith(prefix)
startswith(s, prefix) ==
    Len(s) >= Len(prefix) /\ SubSeq(s, 1, Len(prefix)) = prefix

\* re.sub(r"\D", "", s)
re_sub_D(s) == SelectSeq(s, IsDigit)

\* s[1:]
slice_from_1(s) == SubSeq(s, 2, Len(s))

\* index of the first line boundary of s, 0 when there is none
RECURSIVE first_break(_, _)
first_break(s, k) ==
    IF k > Len(s) THEN 0
    ELSE IF s[k] \in LineBreaks THEN k
    ELSE first_break(s, k + 1)

\* str.splitlines(): "\r\n" is one boundary, no empty last line
RECURSIVE splitlines(_)
splitlines(s) ==
    IF s = <<>> THEN <<>>
    ELSE LET k == first_break(s, 1) IN
         IF k = 0 THEN <<s>>
         ELSE LET crlf == s[k] = "\r" /\ k < Len(s) /\ s[k + 1] = "\n"
                  next == IF crlf THEN k + 2 ELSE k + 1
              IN <<SubSeq(s, 1, k - 1)>> \o splitlines(SubSeq(s, next, Len(s)))

\* sep.join(parts)
RECURSIVE join(_, _)
join(sep, parts) ==
    IF parts = <<>> THEN <<>>
    ELSE IF Len(parts) = 1 THEN parts[1]
    ELSE parts[1] \o sep \o join(sep, Tail(parts))

----------------------------------------------------------------------------
(* normalize_phone *)

\* the rules for a phone without a leading '+'
InferNoPlus(digits) ==
    IF Len(digits) = 11 /\ startswith(digits, <<"8">>)
    THEN <<"+", "7">> \o slice_from_1(digits)
    ELSE IF Len(digits) = 11 /\ startswith(digits, <<"7">>)
    THEN <<"+">> \o digits
    ELSE IF digits # <<>> THEN <<"+">> \o digits ELSE <<>>

\* normalize_phone that forgets the leading '+' it saw
normalize_phone_PlusIgnored(raw) ==
    IF raw = None THEN <<>> ELSE InferNoPlus(re_sub_D(strip(raw)))

normalize_phone(raw) ==
    IF raw = None THEN <<>>
    ELSE LET phone == strip(raw)
             digits == re_sub_D(phone)
             has_plus == startswith(phone, <<"+">>)
         IN IF has_plus THEN <<"+">> \o digits ELSE InferNoPlus(digits)

----------------------------------------------------------------------------
(* Inputs *)

Alphabet == {"+", "8", "7", "1", "a", " ", "\n", ArabicThree}

RECURSIVE SeqsUpTo(_, _)
SeqsUpTo(S, n) ==
    IF n = 0 THEN {<<>>}
    ELSE LET shorter == SeqsUpTo(S, n - 1)
         IN shorter \cup {Append(s, c) : s \in {t \in shorter : Len(t) = n - 1}, c \in S}

FillDigits == <<"9", "2", "5", "1", "9", "8", "9", "0", "9", "1">>

Filler(n) == [k \in 1..n |-> FillDigits[((k - 1) % Len(FillDigits)) + 1]]

Affixes == {<<>>, <<"+">>, <<" ">>, <<"a">>, <<" ", "+">>}

LongPhones ==
    {pre \o <<d>> \o Filler(n) \o post :
        pre \in Affixes, post \in Affixes,
        d \in {"8", "7", "1", ArabicThree},
        n \in (10 - RunSlack)..(10 + RunSlack)}

ExamplePhones ==
    { <<"+", "7", " ", "9", "2", "5", " ", "1", "9", "8", "-", "9", "0", "-", "9", "1">>,
      <<"7", " ", "9", "2", "5", " ", "1", "9", "8", "-", "9", "0", "-", "9", "1">>,
      <<"8", "9", "2", "5", "1", "9", "8", "9", "0", "9", "1">>,
      <<"1", "2", "3", "4", "5">>,
      <<"n", "o", "t", "a", "p", "h", "o", "n", "e">> }

RawPhones == SeqsUpTo(Alphabet, MaxRawLen) \cup LongPhones \cup ExamplePhones \cup {None}

\* the parts one after the other
RECURSIVE concat(_)
concat(parts) == IF parts = <<>> THEN <<>> ELSE Head(parts) \o concat(Tail(parts))

TextAlphabet == {"A", "1", "+", " ", "\n", "\r"}

\* pieces of text: lines with their line break (a name with blanks around
\* it, phones, a pair whose phone has no digit, a blank line) and a piece
\* without line break, which runs into the piece after it
Pieces ==
    { <<" ", "A", "l", "\t", "\r", "\n">>,
      <<"+", "1", " ", "5", "\n">>,
      <<"B", "o", "\n", "n", "o", "\n">>,
      <<"+", "\n">>,
      <<" ", "\n">>,
      <<"8", " ", "9", "2", "5", " ", "1", "9", "8", "-", "9", "0", "-", "9", "1", "\n">>,
      <<ArabicThree, "\n">>,
      <<"+", "a">> }

\* the texts parse_contacts is called with
Texts ==
    SeqsUpTo(TextAlphabet, MaxTextLen)
        \cup {concat(ps) : ps \in SeqsUpTo(Pieces, MaxPieces)}

\* (name, phone) tuples as parse_contacts returns them: a trimmed,
\* non-empty line and a non-empty result of normalize_phone
ContactNames == { <<"A", "l">>, <<"B", "o">>, <<"A", ";", " ", "b">> }

ContactPhones ==
    { <<"+", "1", "5">>,
      <<"+", "7", "9", "2", "5", "1", "9", "8", "9", "0", "9", "1">>,
      <<"+">>,
      <<"+", ArabicThree>> }

Contacts == {<<n, p>> : n \in ContactNames, p \in ContactPhones}

\* the lists to_vcard is called with
EntryLists == SeqsUpTo(Contacts, MaxEntries)

----------------------------------------------------------------------------
(* parse_contacts *)

\* f"Строка с именем без телефона пропущена: '{name}'"
MsgNoPhoneHead == "Stroka s imenem bez telefona propushchena: '"
MsgNoPhoneTail == "'"

\* f"Не удалось распознать телефон для: '{name}' (строка: '{phone}')"
MsgBadPhoneHead == "Ne udalos' raspoznat' telefon dlya: '"
MsgBadPhoneMid == "' (stroka: '"
MsgBadPhoneTail == "')"

NoPhoneWarning(name) == <<MsgNoPhoneHead>> \o name \o <<MsgNoPhoneTail>>

BadPhoneWarning(name, phone) ==
    <<MsgBadPhoneHead>> \o name \o <<MsgBadPhoneMid>> \o phone \o <<MsgBadPhoneTail>>

\* [ln.strip() for ln in text.splitlines()], then [ln for ln in lines if ln]
NonBlankLines(t) ==
    LET split == splitlines(t)
        stripped == [k \in 1..Len(split) |-> strip(split[k])]
        nonempty(ln) == ln # <<>>
    IN SelectSeq(stripped, nonempty)

\* the state of the loop: the 0-based index i, the two lists, and whether
\* the loop was left by break
LoopStart == [i |-> 0, pairs |-> <<>>, warnings |-> <<>>, broke |-> FALSE]

\* OnNoPhone that drops the name without a warning
OnNoPhone_Silent(st, name) ==
    [st EXCEPT !.i = st.i + 1, !.broke = TRUE]

\* else branch of "if i + 1 < len(lines)": the name has no phone line
OnNoPhone(st, name) ==
    [st EXCEPT !.i = st.i + 1,
               !.warnings = Append(st.warnings, NoPhoneWarning(name)),
               !.broke = TRUE]

\* OnBadPhone with break in place of continue
OnBadPhone_Break(st, name, phone) ==
    [st EXCEPT !.i = st.i + 2,
               !.warnings = Append(st.warnings, BadPhoneWarning(name, phone)),
               !.broke = TRUE]

\* OnBadPhone that drops the pair without a warning
OnBadPhone_Silent(st, name, phone) ==
    [st EXCEPT !.i = st.i + 2]

\* "if not norm_phone": warn and continue
OnBadPhone(st, name, phone) ==
    [st EXCEPT !.i = st.i + 2,
               !.warnings = Append(st.warnings, BadPhoneWarning(name, phone))]

\* OnContact with pairs.insert(0, ...) in place of pairs.append(...)
OnContact_Prepend(st, name, norm_phone) ==
    [st EXCEPT !.i = st.i + 2,
               !.pairs = <<<<name, norm_phone>>>> \o st.pairs]

\* pairs.append((name, norm_phone))
OnContact(st, name, norm_phone) ==
    [st EXCEPT !.i = st.i + 2,
               !.pairs = Append(st.pairs, <<name, norm_phone>>)]

\* one pass through the body of "while i < len(lines)"
LoopBody(ls, st) ==
    LET name == ls[st.i + 1] IN
    IF st.i + 1 < Len(ls)
    THEN LET phone == ls[st.i + 2]
             norm_phone == normalize_phone(phone)
         IN IF norm_phone = <<>>
            THEN OnBadPhone(st, name, phone)
            ELSE OnContact(st, name, norm_phone)
    ELSE OnNoPhone(st, name)

RECURSIVE RunLoop(_, _)
RunLoop(ls, st) ==
    IF st.broke \/ ~(st.i < Len(ls)) THEN st ELSE RunLoop(ls, LoopBody(ls, st))

\* parse_contacts on the non-blank lines: the returned (pairs, warnings)
ParseLines(ls) == RunLoop(ls, LoopStart)

parse_contacts(t) == ParseLines(NonBlankLines(t))

----------------------------------------------------------------------------
(* to_vcard *)

VCardBlock(name, phone) ==
    join(<<"\n">>, << <<"BEGIN:VCARD">>,
                      <<"VERSION:3.0">>,
                      <<"FN:">> \o name,
                      <<"TEL;TYPE=CELL:">> \o phone,
                      <<"END:VCARD">> >>)

\* to_vcard that ends every block with a line break
to_vcard_TrailingBreak(es) ==
    concat([k \in 1..Len(es) |-> VCardBlock(es[k][1], es[k][2]) \o <<"\n">>])

\* blocks holds one block per entry, in order; "\n".join(blocks)
to_vcard(es) ==
    join(<<"\n">>, [k \in 1..Len(es) |-> VCardBlock(es[k][1], es[k][2])])

----------------------------------------------------------------------------
(* The state machine: one call of normalize_phone, of parse_contacts or   *)
(* of to_vcard.  raw_phone, text and entries are the arguments; result    *)
(* and vcard are what normalize_phone and to_vcard return; lines, i,      *)
(* pairs and warnings are the locals of parse_contacts, which returns     *)
(* (pairs, warnings) when pc = "parsed".                                   *)

InitNormalize ==
    /\ pc = "call_normalize"
    /\ raw_phone \in RawPhones
    /\ text = <<>>
    /\ entries = <<>>

InitParse ==
    /\ pc = "call_parse"
    /\ raw_phone = None
    /\ text \in Texts
    /\ entries = <<>>

InitToVcard ==
    /\ pc = "call_to_vcard"
    /\ raw_phone = None
    /\ text = <<>>
    /\ entries \in EntryLists

Init ==
    /\ InitNormalize \/ InitParse \/ InitToVcard
    /\ result = <<>>
    /\ lines = <<>>
    /\ i = 0
    /\ pairs = <<>>
    /\ warnings = <<>>
    /\ vcard = <<>>

NormalizeCall ==
    /\ pc = "call_normalize"
    /\ result' = normalize_phone(raw_phone)
    /\ pc' = "returned"
    /\ UNCHANGED <<raw_phone, text, lines, i, pairs, warnings, entries, vcard>>

\* parse_contacts up to the loop: the non-blank lines, the empty lists, i = 0
ParseBegin ==
    /\ pc = "call_parse"
    /\ lines' = NonBlankLines(text)
    /\ i' = LoopStart.i
    /\ pairs' = LoopStart.pairs
    /\ warnings' = LoopStart.warnings
    /\ pc' = "loop"
    /\ UNCHANGED <<raw_phone, result, text, entries, vcard>>

\* "while i < len(lines)" holds: one pass, left by break or by reaching
\* the end of the body or its continue
LoopPass ==
    /\ pc = "loop"
    /\ i < Len(lines)
    /\ LET st == LoopBody(lines, [i |-> i, pairs |-> pairs,
                                  warnings |-> warnings, broke |-> FALSE])
       IN /\ i' = st.i
          /\ pairs' = st.pairs
          /\ warnings' = st.warnings
          /\ pc' = IF st.broke THEN "parsed" ELSE "loop"
    /\ UNCHANGED <<raw_phone, result, text, lines, entries, vcard>>

\* "while i < len(lines)" fails: return pairs, warnings
LoopEnd ==
    /\ pc = "loop"
    /\ ~(i < Len(lines))
    /\ pc' = "parsed"
    /\ UNCHANGED <<raw_phone, result, text, lines, i, pairs, warnings,
                   entries, vcard>>

ToVcardCall ==
    /\ pc = "call_to_vcard"
    /\ vcard' = to_vcard(entries)
    /\ pc' = "serialized"
    /\ UNCHANGED <<raw_phone, result, text, lines, i, pairs, warnings, entries>>

Next ==
    NormalizeCall \/ ParseBegin \/ LoopPass \/ LoopEnd \/ ToVcardCall

Spec == Init /\ [][Next]_vars

----------------------------------------------------------------------------
(* Vocabulary of the properties *)

IsAsciiDigit(c) == c \in AsciiDigits

\* '+' followed by one or more characters of D, and nothing else
IsPlusThen(p, D) ==
    /\ Len(p) >= 2
    /\ p[1] = "+"
    /\ \A k \in 2..Len(p) : p[k] \in D

\* the canonical phone form of the glossary
IsCanonical(p) == IsPlusThen(p, AsciiDigits)

\* s occurs in w as a contiguous piece
Contains(w, s) ==
    \E k \in 0..(Len(w) - Len(s)) : SubSeq(w, k + 1, k + Len(s)) = s

Returned == pc = "returned"

Parsed == pc = "parsed"

Serialized == pc = "serialized"

\* the number of complete (name-line, phone-line) pairs of the non-blank lines
NumPairs == Len(lines) \div 2

NameOf(k) == lines[2 * k - 1]

PhoneOf(k) == lines[2 * k]

----------------------------------------------------------------------------
(* normalize_phone *)

\* C2: for every string that starts with '+', normalize_phone returns '+'
\* followed by the ASCII digits of the string, in order.
C2_PlusThenAsciiDigits ==
    (Returned /\ raw_phone # None /\ startswith(raw_phone, <<"+">>))
        => result = <<"+">> \o SelectSeq(raw_phone, IsAsciiDigit)

\* C3: without a leading '+' (after trimming), with digits the ASCII digit
\* characters of the string in order: 11 digits starting with 8 give "+7"
\* and digits[1:]; any other non-empty digits give "+" and the digits; no
\* digits, or None, give the empty string.
C3_NoPlusCases ==
    Returned =>
        IF raw_phone = None THEN result = <<>>
        ELSE ~startswith(strip(raw_phone), <<"+">>) =>
            LET digits == SelectSeq(raw_phone, IsAsciiDigit) IN
            /\ (Len(digits) = 11 /\ digits[1] = "8")
                   => result = <<"+", "7">> \o SubSeq(digits, 2, 11)
            /\ (digits # <<>> /\ ~(Len(digits) = 11 /\ digits[1] = "8"))
                   => result = <<"+">> \o digits
            /\ digits = <<>> => result = <<>>

\* C4: a phone that is '+' followed by one or more digits is returned
\* unchanged, and normalizing a result again returns the same result.
C4_Idempotent ==
    Returned =>
        /\ IsPlusThen(raw_phone, {c \in Alphabet \cup AsciiDigits : IsDigit(c)})
               => result = raw_phone
        /\ normalize_phone(result) = result

\* '+' and 11 digits starting with 8 was normalized
C4_Witness ==
    /\ Returned
    /\ IsCanonical(raw_phone)
    /\ Len(raw_phone) = 12
    /\ raw_phone[2] = "8"
    /\ result = raw_phone

----------------------------------------------------------------------------
(* parse_contacts *)

\* the pairs whose phone-line normalize_phone rejects
BadPairs == {k \in 1..NumPairs : normalize_phone(PhoneOf(k)) = <<>>}

\* the non-blank lines without the two lines of pair k
WithoutPair(k) ==
    SubSeq(lines, 1, 2 * k - 2) \o SubSeq(lines, 2 * k + 1, Len(lines))

\* sequence s without its j-th element
WithoutIndex(s, j) == SubSeq(s, 1, j - 1) \o SubSeq(s, j + 1, Len(s))

\* the warnings that report a name without a phone
NoPhoneWarnings == {j \in 1..Len(warnings) : Head(warnings[j]) = MsgNoPhoneHead}

\* C1: every returned Contact has a non-empty name and a canonical phone,
\* '+' followed by one or more ASCII digits.
C1_ContactsCanonical ==
    \A k \in 1..Len(pairs) :
        /\ pairs[k][1] # <<>>
        /\ IsCanonical(pairs[k][2])

\* C5: for a pair whose phone-line normalizes to the empty string, exactly
\* one warning with the name and the raw phone-line is added, no Contact
\* is added, and the rest is parsed as if the pair were absent.
C5_BadPhoneSkipped ==
    Parsed =>
        \A k \in BadPairs :
            LET j == Cardinality({b \in BadPairs : b <= k})
                rest == ParseLines(WithoutPair(k))
            IN /\ pairs = rest.pairs
               /\ j <= Len(warnings)
               /\ Head(warnings[j]) = MsgBadPhoneHead
               /\ Contains(warnings[j], NameOf(k))
               /\ Contains(warnings[j], PhoneOf(k))
               /\ WithoutIndex(warnings, j) = rest.warnings

\* a rejected pair was followed by a pair that became a Contact
C5_Witness ==
    /\ pc = "parsed"
    /\ \E k \in BadPairs : k < NumPairs /\ (k + 1) \notin BadPairs
    /\ pairs # <<>>

\* C6: with an odd number of non-blank lines there is exactly one warning
\* for a name without phone, it names the last non-blank line, it is the
\* last warning, and the Contacts are those of the input without that
\* line; with an even number there is no such warning.
C6_DanglingName ==
    Parsed =>
        IF Len(lines) % 2 = 1
        THEN /\ NoPhoneWarnings = {Len(warnings)}
             /\ warnings # <<>>
             /\ warnings[Len(warnings)] =
                    <<MsgNoPhoneHead>> \o lines[Len(lines)] \o <<MsgNoPhoneTail>>
             /\ pairs = ParseLines(SubSeq(lines, 1, Len(lines) - 1)).pairs
        ELSE NoPhoneWarnings = {}

\* a trailing name came after a pair that became a Contact
C6_Witness ==
    /\ pc = "parsed"
    /\ Len(lines) % 2 = 1
    /\ Len(lines) >= 3
    /\ pairs # <<>>

\* C7: the Contacts are, in pairing order and without duplicates, the
\* pairs whose phone-line normalizes to a non-empty string: the name is the
\* line at an even 0-based position and the phone is normalize_phone of the
\* next line.
C7_PairingOrder ==
    Parsed =>
        LET good == (1..NumPairs) \ BadPairs IN
        /\ Len(pairs) = Cardinality(good)
        /\ \A k \in good :
               LET j == Cardinality({g \in good : g <= k}) IN
               pairs[j] = <<NameOf(k), normalize_phone(PhoneOf(k))>>

\* two different Contacts were returned
C7_Witness ==
    /\ pc = "parsed"
    /\ Len(pairs) >= 2
    /\ pairs[1] # pairs[2]

\* C9: every pair whose phone-line holds no digit is reported in a warning
\* and yields no Contact.
C9_NoDigitDropped ==
    Parsed =>
        LET nodigit == {k \in 1..NumPairs : SelectSeq(PhoneOf(k), IsDigit) = <<>>} IN
        /\ nodigit \subseteq BadPairs
        /\ Len(pairs) <= NumPairs - Cardinality(nodigit)
        /\ \A k \in nodigit :
               \E j \in 1..Len(warnings) :
                   Contains(warnings[j], NameOf(k)) /\ Contains(warnings[j], PhoneOf(k))

\* in the loop one Contact or warning per consumed pair; at the end every
\* non-blank line of the text is consumed
LinesAccounted ==
    /\ pc = "loop" =>
           /\ i % 2 = 0
           /\ i <= Len(lines)
           /\ Len(pairs) + Len(warnings) = i \div 2
    /\ Parsed =>
           /\ lines = NonBlankLines(text)
           /\ i = Len(lines)
           /\ Len(pairs) + Len(warnings) = (Len(lines) + 1) \div 2

\* every pass of the loop either leaves it or moves i forward
LoopAdvances == pc = "loop" => (pc' = "parsed" \/ (pc' = "loop" /\ i' > i))

\* C10: parse_contacts terminates (every pass moves i forward, and i never
\* exceeds the number of lines) and accounts for every non-blank line
\* once: len(contacts) + len(warnings) = ceil(n / 2) for the n non-blank
\* lines, so a text without non-blank lines gives ([], []).
C10_EveryLineAccounted == []LinesAccounted /\ [][LoopAdvances]_vars

\* a Contact, a rejected pair and a trailing name in one run
C10_Witness ==
    /\ pc = "parsed"
    /\ Len(lines) % 2 = 1
    /\ i = Len(lines)
    /\ pairs # <<>>
    /\ BadPairs # {}
    /\ Len(warnings) >= 2

----------------------------------------------------------------------------
(* to_vcard *)

\* the five lines of the block of Contact c, a line break between them
BlockOf(c) ==
    <<"BEGIN:VCARD", "\n", "VERSION:3.0", "\n", "FN:">> \o c[1]
        \o <<"\n", "TEL;TYPE=CELL:">> \o c[2] \o <<"\n", "END:VCARD">>

\* where the block of the k-th Contact starts in the output: after the
\* blocks before it and one line break for each
RECURSIVE BlockOffset(_)
BlockOffset(k) ==
    IF k = 1 THEN 0 ELSE BlockOffset(k - 1) + Len(BlockOf(entries[k - 1])) + 1

\* C8: the output holds the blocks of the Contacts in order, each the five
\* lines BEGIN:VCARD, VERSION:3.0, FN:name, TEL;TYPE=CELL:phone, END:VCARD,
\* one line break between blocks, nothing before or after; no Contacts
\* give the empty string.
C8_BlocksInOrder ==
    Serialized =>
        LET n == Len(entries) IN
        IF n = 0 THEN vcard = <<>>
        ELSE /\ Len(vcard) = BlockOffset(n) + Len(BlockOf(entries[n]))
             /\ \A k \in 1..n :
                    LET off == BlockOffset(k)
                        len == Len(BlockOf(entries[k]))
                    IN /\ SubSeq(vcard, off + 1, off + len) = BlockOf(entries[k])
                       /\ k < n => vcard[off + len + 1] = "\n"

\* two different Contacts were serialized
C8_Witness ==
    /\ Serialized
    /\ Len(entries) >= 2
    /\ entries[1] # entries[2]
    /\ vcard # <<>>

====
